---- MODULE Spec2Model ----
(***************************************************************************)
(* Model of the Hacker News aggregator: scripts/hn_fetch.py (argument      *)
(* clamping, the pagination loop of fetch_hn_stories with its one retry,   *)
(* row extraction, relative-age parsing, filtering, the final sort, the    *)
(* JSON payload) and scripts/app.py (the POST /api/run wrapper).           *)
(*                                                                         *)
(* Texts are modelled as sequences of words (the pieces between            *)
(* whitespace); a word is a run of digits (Num) or any other text (W).     *)
(* An href is a sequence of string segments whose concatenation is the     *)
(* href.                                                                   *)
(***************************************************************************)
EXTENDS Integers, Sequences, FiniteSets, TLC

VARIABLES
    entry,              \* "cli" (python hn_fetch.py ...) or "http" (POST /api/run)
    input,              \* cli: the options on the command line; http: the JSON body
    argv,               \* what main() receives, as argparse reads it
    site,               \* "full" or "few": which documents the remote site answers with in this run
    pc,                 \* position in the program
    days, min_votes, max_pages,     \* main(): the clamped parameters
    cutoff_seconds,     \* fetch_hn_stories local
    page,               \* loop variable of "for page in range(1, max_pages + 1)"
    retried_first,      \* fetch_hn_stories local
    status, body,       \* the last (status, body) returned by http_get
    rows, i,            \* rows of the parsed page, index of the next row to scan
    any_within_cutoff,  \* fetch_hn_stories local
    results,            \* fetch_hn_stories local list
    encountered,        \* history: the records in the order they were appended
    scanned,            \* history: the indices of the rows of this page the loop has looked at
    gets,               \* history: every HTTP GET issued, with the status it returned
    stdout,             \* what main() wrote to standard output (<<>> or <<payload>>)
    rv,                 \* return value of main()
    response            \* HTTP response of run() (<<>> or <<json body>>)

vars == <<entry, input, argv, site, pc, days, min_votes, max_pages, cutoff_seconds, page,
          retried_first, status, body, rows, i, any_within_cutoff, results,
          encountered, scanned, gets, stdout, rv, response>>

-----------------------------------------------------------------------------
(* Bounds of the model *)

MaxRows == 2        \* story rows on one listing page

-----------------------------------------------------------------------------
(* Words and texts *)

Num(n) == [kind |-> "num", n |-> n, s |-> ""]
W(s) == [kind |-> "str", n |-> 0, s |-> s]

\* str.lower() on the words the model uses
Lower(w) ==
    IF w.kind = "num" THEN w
    ELSE W(CASE w.s = "Hour" -> "hour"
             [] w.s = "Hours" -> "hours"
             [] w.s = "AGO" -> "ago"
             [] w.s = "Yesterday" -> "yesterday"
             [] OTHER -> w.s)

LowerText(t) == [k \in 1..Len(t) |-> Lower(t[k])]

-----------------------------------------------------------------------------
(* Pure functions of hn_fetch.py *)

HN_ORIGIN == "https://news.ycombinator.com"

\* normalize_hn_link(href)
normalize_hn_link(href) ==
    IF href = <<>> THEN href
    ELSE IF Head(href) \in {"item?", "from?"} THEN <<HN_ORIGIN, "/">> \o href
    ELSE IF Head(href) = "/" THEN <<HN_ORIGIN>> \o href
    ELSE href

\* the unit captured by (minute|hour|day)s? ; <<>> when the word does not match
unit_of(w) ==
    IF w.kind # "str" THEN <<>>
    ELSE IF w.s \in {"minute", "minutes"} THEN <<"minute">>
    ELSE IF w.s \in {"hour", "hours"} THEN <<"hour">>
    ELSE IF w.s \in {"day", "days"} THEN <<"day">>
    ELSE <<>>

\* parse_age_seconds(age_text): Optional[int] as <<>> (None) or <<seconds>>

\* a parser that takes a text it cannot read for an age of zero seconds
parse_age_seconds_lenient(age_text) ==
    LET t == LowerText(age_text)
    IN  IF /\ Len(t) = 3
           /\ t[1].kind = "num"
           /\ unit_of(t[2]) # <<>>
           /\ t[3] = W("ago")
        THEN LET unit == unit_of(t[2])[1]
             IN  <<t[1].n * (IF unit = "minute" THEN 60 ELSE IF unit = "hour" THEN 3600 ELSE 86400)>>
        ELSE <<0>>

parse_age_seconds(age_text) ==
    LET t == LowerText(age_text)
    IN  IF t = <<>> THEN <<>>
        ELSE IF ~(/\ Len(t) = 3
                  /\ t[1].kind = "num"
                  /\ unit_of(t[2]) # <<>>
                  /\ t[3] = W("ago")) THEN <<>>
        ELSE LET value == t[1].n
                 unit == unit_of(t[2])[1]
             IN  IF unit = "minute" THEN <<value * 60>>
                 ELSE IF unit = "hour" THEN <<value * 3600>>
                 ELSE IF unit = "day" THEN <<value * 86400>>
                 ELSE <<>>

\* votes = int(m.group(1)) if m else 0, with m = re.match(r"^(\d+)", votes_text)
parse_votes(votes_text) ==
    IF votes_text # <<>> /\ Head(votes_text).kind = "num" THEN Head(votes_text).n ELSE 0

\* The body of "for row in rows" for one row: does it set any_within_cutoff, and
\* which record (if any) does it append.
Skip == [within |-> FALSE, append |-> <<>>]

\* a scan that leaves out "if votes < min_votes: continue"
scan_row_ignoring_votes(row, cutoff, minv) ==
    IF row.title_link = <<>> \/ row.meta_row = <<>> THEN Skip
    ELSE LET meta == row.meta_row[1]
             age_text == IF meta.age # <<>> THEN meta.age[1] ELSE <<>>
             age_seconds == parse_age_seconds(age_text)
         IN  IF age_seconds = <<>> THEN Skip
             ELSE IF ~(age_seconds[1] <= cutoff) THEN Skip
             ELSE [within |-> TRUE,
                   append |-> <<[title |-> row.title_link[1].text,
                                 link |-> normalize_hn_link(row.title_link[1].href),
                                 votes |-> parse_votes(IF meta.score # <<>> THEN meta.score[1] ELSE <<>>),
                                 age_text |-> age_text]>>]

scan_row(row, cutoff, minv) ==
    IF row.title_link = <<>> THEN Skip
    ELSE IF row.meta_row = <<>> THEN Skip
    ELSE LET title == row.title_link[1].text
             href == normalize_hn_link(row.title_link[1].href)
             meta == row.meta_row[1]
             votes_text == IF meta.score # <<>> THEN meta.score[1] ELSE <<>>
             votes == parse_votes(votes_text)
             age_text == IF meta.age # <<>> THEN meta.age[1] ELSE <<>>
             age_seconds == parse_age_seconds(age_text)
         IN  IF age_seconds = <<>> THEN Skip
             ELSE IF ~(age_seconds[1] <= cutoff) THEN Skip
             ELSE IF votes < minv THEN [within |-> TRUE, append |-> <<>>]
             ELSE [within |-> TRUE,
                   append |-> <<[title |-> title, link |-> href,
                                 votes |-> votes, age_text |-> age_text]>>]

\* results.sort(key=lambda s: int(s.get("votes") or 0), reverse=True)
sort_key(s) == s.votes

\* a sort that sorts ascending (stably) and then reverses the list: records of
\* equal key come out in reverse order
sort_then_reverse(list) ==
    LET n == Len(list)
        place(k) == Cardinality({j \in 1..n : sort_key(list[j]) < sort_key(list[k])})
                    + Cardinality({j \in 1..k : sort_key(list[j]) = sort_key(list[k])})
    IN  [p \in 1..n |-> list[CHOOSE k \in 1..n : place(k) = n + 1 - p]]

\* list.sort(key, reverse=True) is stable: the record at index k goes after the
\* records of greater key and after the records of equal key that precede it.
sort_by_votes_desc(list) ==
    LET n == Len(list)
        place(k) == Cardinality({j \in 1..n : sort_key(list[j]) > sort_key(list[k])})
                    + Cardinality({j \in 1..k : sort_key(list[j]) = sort_key(list[k])})
    IN  [p \in 1..n |-> list[CHOOSE k \in 1..n : place(k) = p]]

\* max(lo, min(hi, x))
Min(a, b) == IF a < b THEN a ELSE b
Max(a, b) == IF a > b THEN a ELSE b

\* a clamp that forgets the lower limit
clamp_upper_only(lo, hi, x) == Min(hi, x)

clamp(lo, hi, x) == Max(lo, Min(hi, x))

-----------------------------------------------------------------------------
(* The remote site: listing pages and HTTP answers *)

Link(text, href) == [text |-> text, href |-> href]
Meta(score, age) == [score |-> score, age |-> age]
Row(title_link, meta_row) == [title_link |-> title_link, meta_row |-> meta_row]

Points(n) == <<<<Num(n), W("points")>>>>
Age(n, unit) == <<<<Num(n), W(unit), W("ago")>>>>

\* <tr class="athing"> rows, each with the <tr> that follows it
RowA == Row(<<Link("A", <<"item?", "id=1">>)>>, <<Meta(Points(100), Age(3, "minutes"))>>)
RowB == Row(<<Link("B", <<"https://example.com/x">>)>>, <<Meta(Points(100), Age(1, "Hour"))>>)
RowC == Row(<<Link("C", <<"/", "newest">>)>>, <<Meta(<<>>, Age(2, "days"))>>)
RowOld == Row(<<Link("D", <<"from?", "site=x">>)>>, <<Meta(Points(300), Age(31, "days"))>>)
RowYesterday == Row(<<Link("E", <<>>)>>, <<Meta(Points(5000), <<<<W("Yesterday")>>>>)>>)
RowNoAge == Row(<<Link("F", <<"item?", "id=2">>)>>, <<Meta(Points(300), <<>>)>>)
RowNoTitle == Row(<<>>, <<Meta(Points(300), Age(3, "minutes"))>>)
RowNoMeta == Row(<<Link("G", <<"item?", "id=3">>)>>, <<>>)

\* the rows of the documents of a short run
RowPool == {RowA, RowB, RowC, RowYesterday, RowNoAge, RowNoTitle}

\* an HTML document is the sequence of its story rows
Documents == UNION {[1..n -> RowPool] : n \in 0..MaxRows}

\* what a long run (more pages than ShortRuns) is served
FewDocuments == {<<RowA>>, <<RowOld>>, <<RowNoMeta, RowA>>}

\* http_get(url, user_agent): (status, body); body is <<>> (the empty string) or
\* <<document>>. An exception gives (0, "").
Refusals ==
    {[status |-> 0, body |-> <<>>]}
    \cup {[status |-> 403, body |-> b] : b \in {<<>>, << <<RowA>> >>}}
    \cup {[status |-> 429, body |-> << <<>> >>], [status |-> 500, body |-> << <<RowA>> >>]}
    \cup {[status |-> 200, body |-> <<>>]}

FullAnswers == Refusals \cup {[status |-> 200, body |-> <<d>>] : d \in Documents}
FewAnswers == Refusals \cup {[status |-> 200, body |-> <<d>>] : d \in FewDocuments}

Answers(s) == IF s = "full" THEN FullAnswers ELSE FewAnswers

ua1 == "ua1"
ua2 == "ua2"

-----------------------------------------------------------------------------
(* Inputs *)

None == <<>>
Some(x) == <<x>>

RawDays == {0, 2, 999}
RawMinVotes == {-5, 100, 999999}
ShortRuns == {0, 1, 2}
LongRuns == {3, 999}

Options(d, v, p) == [days |-> d, min_votes |-> v, max_pages |-> p]
NoOptions == Options(None, None, None)

CommandLines ==
    {Options(Some(d), Some(v), Some(p)) : d \in RawDays, v \in RawMinVotes, p \in ShortRuns \cup LongRuns}

\* JSON bodies of POST /api/run: null, {} and {"days": 3}
JsonBodies == {None, Some(NoOptions), Some(Options(Some(3), None, None))}

Keys(dict) == {k \in {"days", "min_votes", "max_pages"} : dict[k] # None}

Clock == {"2026-01-01 00:00:00", "2026-01-01 00:00:01"}

\* JSON values of a response body
JNumber(n) == [type |-> "number", number |-> n, object |-> <<>>]
JObject(o) == [type |-> "object", number |-> 0, object |-> <<o>>]

Init ==
    /\ \/ /\ entry = "cli"
          /\ input \in CommandLines
          /\ site = IF input.max_pages[1] \in ShortRuns THEN "full" ELSE "few"
       \/ /\ entry = "http"
          /\ input \in JsonBodies
          /\ site = "few"
    /\ argv = [opts |-> NoOptions, extra |-> {}]
    /\ pc = "start"
    \* the locals of main() and fetch_hn_stories, not assigned yet
    /\ days = 0 /\ min_votes = 0 /\ max_pages = 0
    /\ cutoff_seconds = 0
    /\ page = 0
    /\ retried_first = FALSE
    /\ status = 0 /\ body = <<>>
    /\ rows = <<>> /\ i = 0
    /\ any_within_cutoff = FALSE
    /\ results = <<>>
    /\ encountered = <<>>
    /\ scanned = {}
    /\ gets = <<>>
    /\ stdout = <<>>
    /\ rv = None
    /\ response = <<>>

-----------------------------------------------------------------------------
(* Entry points *)

\* hn_fetch.py as a script: main(sys.argv[1:])
script ==
    /\ pc = "start" /\ entry = "cli"
    /\ argv' = [opts |-> input, extra |-> {}]
    /\ pc' = "main"
    /\ UNCHANGED <<entry, input, site, days, min_votes, max_pages, cutoff_seconds, page,
                   retried_first, status, body, rows, i, any_within_cutoff, results,
                   encountered, scanned, gets, stdout, rv, response>>

\* app.py run(): data = request.get_json() or {}; hn_fetch.main(data).
\* parse_args(data) reads list(data): the keys of the dict, none of them an option.
run_call_main ==
    /\ pc = "start" /\ entry = "http"
    /\ LET data == IF input = None THEN NoOptions ELSE input[1]
       IN  argv' = [opts |-> NoOptions, extra |-> Keys(data)]
    /\ pc' = "main"
    /\ UNCHANGED <<entry, input, site, days, min_votes, max_pages, cutoff_seconds, page,
                   retried_first, status, body, rows, i, any_within_cutoff, results,
                   encountered, scanned, gets, stdout, rv, response>>

\* main(): ap.parse_args(argv) on arguments it does not know: SystemExit(2)
main_usage_error ==
    /\ pc = "main"
    /\ argv.extra # {}
    /\ pc' = "exit"
    /\ UNCHANGED <<entry, input, argv, site, days, min_votes, max_pages, cutoff_seconds,
                   page, retried_first, status, body, rows, i, any_within_cutoff, results,
                   encountered, scanned, gets, stdout, rv, response>>

OptionOr(opt, default) == IF opt = None THEN default ELSE opt[1]

\* a loop that runs one page too far
loop_one_too_far(p, maxp) == IF p <= maxp + 1 THEN "get" ELSE "sort"

\* "for page in range(1, max_pages + 1)": where the loop goes with this page number
loop_at(p, maxp) == IF p <= maxp THEN "get" ELSE "sort"

\* main(): defaults, clamping, and the start of fetch_hn_stories
main_start ==
    /\ pc = "main"
    /\ argv.extra = {}
    /\ days' = clamp(1, 30, OptionOr(argv.opts.days, 7))
    /\ min_votes' = clamp(0, 5000, OptionOr(argv.opts.min_votes, 250))
    /\ max_pages' = clamp(1, 20, OptionOr(argv.opts.max_pages, 5))
    /\ cutoff_seconds' = days' * 86400
    /\ results' = <<>>
    /\ retried_first' = FALSE
    /\ page' = 1
    /\ pc' = loop_at(1, max_pages')
    /\ UNCHANGED <<entry, input, argv, site, status, body, rows, i, any_within_cutoff,
                   encountered, scanned, gets, stdout, rv, response>>

-----------------------------------------------------------------------------
(* fetch_hn_stories *)

\* status, body = http_get(url, ua1)
http_get_page ==
    /\ pc = "get"
    /\ \E a \in Answers(site) :
        /\ status' = a.status
        /\ body' = a.body
        /\ gets' = Append(gets, [page |-> page, ua |-> ua1, status |-> a.status])
    /\ pc' = "got"
    /\ UNCHANGED <<entry, input, argv, site, days, min_votes, max_pages, cutoff_seconds,
                   page, retried_first, rows, i, any_within_cutoff, results, encountered,
                   scanned, stdout, rv, response>>

\* a retry rule without "page == 1"
retry_on_any_page(p, retried, st) == ~retried /\ st \in {403, 429}

\* page == 1 and not retried_first and status in (403, 429)
retry_needed(p, retried, st) == p = 1 /\ ~retried /\ st \in {403, 429}

\* retried_first = True; status, body = http_get(url, ua2)
retry_first_page ==
    /\ pc = "got"
    /\ retry_needed(page, retried_first, status)
    /\ retried_first' = TRUE
    /\ \E a \in Answers(site) :
        /\ status' = a.status
        /\ body' = a.body
        /\ gets' = Append(gets, [page |-> page, ua |-> ua2, status |-> a.status])
    /\ pc' = "check"
    /\ UNCHANGED <<entry, input, argv, site, days, min_votes, max_pages, cutoff_seconds,
                   page, rows, i, any_within_cutoff, results, encountered, scanned,
                   stdout, rv, response>>

\* control is at "if status != 200 or not body"
AtCheck == pc = "check" \/ (pc = "got" /\ ~retry_needed(page, retried_first, status))

\* status != 200 or not body, or no rows in the document
page_failed(st, b) ==
    IF st # 200 THEN TRUE ELSE IF b = <<>> THEN TRUE ELSE b[1] = <<>>

\* a break that loses what was accumulated
stop_pagination_dropping_results ==
    /\ AtCheck
    /\ page_failed(status, body)
    /\ results' = <<>>
    /\ pc' = "sort"
    /\ UNCHANGED <<entry, input, argv, site, days, min_votes, max_pages, cutoff_seconds,
                   page, retried_first, status, body, rows, i, any_within_cutoff,
                   encountered, scanned, gets, stdout, rv, response>>

\* break
stop_pagination ==
    /\ AtCheck
    /\ page_failed(status, body)
    /\ pc' = "sort"
    /\ UNCHANGED <<entry, input, argv, site, days, min_votes, max_pages, cutoff_seconds,
                   page, retried_first, status, body, rows, i, any_within_cutoff, results,
                   encountered, scanned, gets, stdout, rv, response>>

\* rows = soup.find_all("tr", class_="athing"); any_within_cutoff = False
parse_page ==
    /\ AtCheck
    /\ ~page_failed(status, body)
    /\ rows' = body[1]
    /\ i' = 1
    /\ any_within_cutoff' = FALSE
    /\ scanned' = {}
    /\ pc' = "rows"
    /\ UNCHANGED <<entry, input, argv, site, days, min_votes, max_pages, cutoff_seconds,
                   page, retried_first, status, body, results, encountered, gets,
                   stdout, rv, response>>

\* one pass of "for row in rows" that leaves the loop at the first row that is too old
scan_next_row_early_exit ==
    /\ pc = "rows"
    /\ i <= Len(rows)
    /\ LET out == scan_row(rows[i], cutoff_seconds, min_votes)
           age == IF rows[i].title_link # <<>> /\ rows[i].meta_row # <<>>
                     /\ rows[i].meta_row[1].age # <<>>
                  THEN parse_age_seconds(rows[i].meta_row[1].age[1]) ELSE <<>>
       IN  /\ any_within_cutoff' = (any_within_cutoff \/ out.within)
           /\ results' = results \o out.append
           /\ encountered' = encountered \o out.append
           /\ i' = IF age # <<>> /\ age[1] > cutoff_seconds THEN Len(rows) + 1 ELSE i + 1
    /\ scanned' = scanned \cup {i}
    /\ UNCHANGED <<entry, input, argv, site, pc, days, min_votes, max_pages,
                   cutoff_seconds, page, retried_first, status, body, rows, gets,
                   stdout, rv, response>>

\* one pass of "for row in rows"
scan_next_row ==
    /\ pc = "rows"
    /\ i <= Len(rows)
    /\ \E out \in {scan_row(rows[i], cutoff_seconds, min_votes)} :
           /\ any_within_cutoff' = (any_within_cutoff \/ out.within)
           /\ results' = results \o out.append
           /\ encountered' = encountered \o out.append
    /\ i' = i + 1
    /\ scanned' = scanned \cup {i}
    /\ UNCHANGED <<entry, input, argv, site, pc, days, min_votes, max_pages,
                   cutoff_seconds, page, retried_first, status, body, rows, gets,
                   stdout, rv, response>>

\* a page loop without "if not any_within_cutoff: break"
after_page_ignoring_cutoff(any, p, maxp) == loop_at(p + 1, maxp)

\* "if not any_within_cutoff: break", else the next iteration of the page loop
after_page(any, p, maxp) == IF ~any THEN "sort" ELSE loop_at(p + 1, maxp)

\* The rows of the page are exhausted. When the loop goes on to the next page,
\* body, rows and the row index are assigned again before they are read, and are
\* cleared here.
end_page ==
    /\ pc = "rows"
    /\ i > Len(rows)
    /\ pc' = after_page(any_within_cutoff, page, max_pages)
    /\ page' = IF pc' = "get" THEN page + 1 ELSE page
    /\ body' = IF pc' = "get" THEN <<>> ELSE body
    /\ rows' = IF pc' = "get" THEN <<>> ELSE rows
    /\ i' = IF pc' = "get" THEN 0 ELSE i
    /\ scanned' = IF pc' = "get" THEN {} ELSE scanned
    /\ UNCHANGED <<entry, input, argv, site, days, min_votes, max_pages, cutoff_seconds,
                   retried_first, status, any_within_cutoff, results, encountered,
                   gets, stdout, rv, response>>

\* results.sort(...); return results
sort_results ==
    /\ pc = "sort"
    /\ results' = sort_by_votes_desc(results)
    /\ pc' = "emit"
    /\ UNCHANGED <<entry, input, argv, site, days, min_votes, max_pages, cutoff_seconds,
                   page, retried_first, status, body, rows, i, any_within_cutoff,
                   encountered, scanned, gets, stdout, rv, response>>

-----------------------------------------------------------------------------
(* main(), after fetch_hn_stories returned; run(), after main returned *)

\* payload = {...}; sys.stdout.buffer.write(json.dumps(payload)...); return 0
main_emit ==
    /\ pc = "emit"
    /\ \E now \in Clock :
        stdout' = <<[generated_at_utc |-> now, days |-> days, min_votes |-> min_votes,
                     stories |-> results]>>
    /\ rv' = Some(0)
    /\ pc' = IF entry = "http" THEN "respond" ELSE "done"
    /\ UNCHANGED <<entry, input, argv, site, days, min_votes, max_pages, cutoff_seconds,
                   page, retried_first, status, body, rows, i, any_within_cutoff, results,
                   encountered, scanned, gets, response>>

\* return jsonify(result=result)
run_respond ==
    /\ pc = "respond"
    /\ response' = <<[result |-> JNumber(rv[1])]>>
    /\ pc' = "done"
    /\ UNCHANGED <<entry, input, argv, site, days, min_votes, max_pages, cutoff_seconds,
                   page, retried_first, status, body, rows, i, any_within_cutoff, results,
                   encountered, scanned, gets, stdout, rv>>

Next ==
    \/ script
    \/ run_call_main
    \/ main_usage_error
    \/ main_start
    \/ http_get_page
    \/ retry_first_page
    \/ stop_pagination
    \/ parse_page
    \/ scan_next_row
    \/ end_page
    \/ sort_results
    \/ main_emit
    \/ run_respond

Spec == Init /\ [][Next]_vars

-----------------------------------------------------------------------------
(* Properties *)

Returned == pc \in {"emit", "respond", "done"}      \* fetch_hn_stories has returned
Started == pc \notin {"start", "main", "exit"}      \* main() has clamped its parameters
Stories == stdout[1].stories

\* the age text of a row's metadata row ("" when there is no metadata row or no age element)
AgeTextOf(row) ==
    IF row.meta_row = <<>> THEN <<>>
    ELSE IF row.meta_row[1].age = <<>> THEN <<>>
    ELSE row.meta_row[1].age[1]

\* '<integer> minute|hour|day(s) ago', whatever the case of the letters
MatchesAgePattern(t) ==
    /\ Len(t) = 3
    /\ t[1].kind = "num"
    /\ t[2].kind = "str"
    /\ t[2].s \in {"minute", "minutes", "hour", "hours", "day", "days",
                   "Minute", "Minutes", "Hour", "Hours", "Day", "Days"}
    /\ t[3] \in {W("ago"), W("AGO"), W("Ago")}

SecondsPer(word) ==
    IF word \in {"minute", "minutes", "Minute", "Minutes"} THEN 60
    ELSE IF word \in {"hour", "hours", "Hour", "Hours"} THEN 3600
    ELSE 86400

\* the age in seconds that a matching text states
AgeSecondsOf(t) == t[1].n * SecondsPer(t[2].s)

RecordOk(r, d, minv) ==
    /\ r.votes >= minv
    /\ MatchesAgePattern(r.age_text)
    /\ AgeSecondsOf(r.age_text) <= d * 86400

\* C1: every record in the list fetch_hn_stories builds and returns has
\* votes >= min_votes and an age text that parses to at most days*86400 seconds;
\* no row failing either test is in the result, for days in 1..30.
C1_ResultsPassBothTests ==
    /\ Started => days \in 1..30 /\ min_votes \in 0..5000 /\ max_pages \in 1..20
    /\ \A k \in 1..Len(results) : RecordOk(results[k], days, min_votes)
    /\ stdout # <<>> => \A k \in 1..Len(Stories) : RecordOk(Stories[k], days, min_votes)

\* C1 witness: a first page of two rows has been scanned with min_votes > 0, one row
\* was kept and the other was not.
C1_Witness ==
    /\ pc = "rows" /\ page = 1 /\ i > Len(rows) /\ Len(rows) = 2
    /\ min_votes > 0
    /\ Len(results) = 1

VotesOnly(list, v) ==
    LET Test(r) == r.votes = v
    IN  SelectSeq(list, Test)

\* C2: the returned list is sorted by votes descending, and records with equal votes
\* are in the order in which they were encountered.
C2_SortedDescendingStable ==
    Returned =>
        /\ \A j, k \in 1..Len(results) : j < k => results[j].votes >= results[k].votes
        /\ Len(results) = Len(encountered)
        /\ \A k \in 1..Len(encountered) :
               VotesOnly(results, encountered[k].votes) = VotesOnly(encountered, encountered[k].votes)
        /\ stdout # <<>> => Stories = results

\* C2 witness: the returned list holds two different records with equal votes and
\* the sort moved a record.
C2_Witness ==
    /\ pc = "done"
    /\ Stories # encountered
    /\ \E j, k \in 1..Len(Stories) :
           j < k /\ Stories[j].votes = Stories[k].votes /\ Stories[j] # Stories[k]

ClampedTo(lo, hi, raw, x) ==
    /\ x \in lo..hi
    /\ raw \in lo..hi => x = raw
    /\ raw < lo => x = lo
    /\ raw > hi => x = hi

\* C7: days is clamped to [1,30], min_votes to [0,5000], max_pages to [1,20]; the
\* clamped values are what the filter uses and what the payload echoes.
C7_ParametersClamped ==
    /\ (entry = "cli" /\ Started) =>
           /\ ClampedTo(1, 30, input.days[1], days)
           /\ ClampedTo(0, 5000, input.min_votes[1], min_votes)
           /\ ClampedTo(1, 20, input.max_pages[1], max_pages)
    /\ Started =>
           /\ cutoff_seconds = days * 86400
           /\ page <= max_pages
           /\ \A k \in 1..Len(results) : results[k].votes >= min_votes
    /\ stdout # <<>> => stdout[1].days = days /\ stdout[1].min_votes = min_votes

\* C7 witness: a run with days=999, min_votes=-5, max_pages=0 has written its payload.
C7_Witness ==
    /\ pc = "done" /\ entry = "cli"
    /\ input.days[1] = 999 /\ stdout[1].days = 30
    /\ input.min_votes[1] = -5 /\ stdout[1].min_votes = 0
    /\ input.max_pages[1] = 0 /\ max_pages = 1
    /\ Stories # <<>>

Retries == {k \in 1..Len(gets) : gets[k].ua = ua2}

\* C3: a first-page 403 or 429 is retried exactly once with the alternate header;
\* a retry that does not return 200 ends pagination with zero results; nothing
\* else is ever retried.
C3_RetryRule ==
    /\ \A k \in Retries :
           /\ k = 2
           /\ gets[2].page = 1
           /\ gets[1].page = 1 /\ gets[1].ua = ua1 /\ gets[1].status \in {403, 429}
    /\ (Len(gets) >= 1 /\ gets[1].status \in {403, 429}) =>
           \/ pc = "got" /\ Len(gets) = 1 /\ ~retried_first
           \/ Len(gets) >= 2 /\ gets[2].ua = ua2 /\ retried_first
    /\ (Len(gets) >= 2 /\ gets[2].ua = ua2 /\ gets[2].status # 200) =>
           /\ Len(gets) = 2
           /\ results = <<>>
           /\ pc \in {"check", "sort", "emit", "respond", "done"}
           /\ stdout # <<>> => Stories = <<>>

\* C3 witness: the first page answered 403, the one retry answered 403 too, and the
\* run ended with no stories.
C3_Witness ==
    /\ pc = "done"
    /\ Len(gets) = 2
    /\ gets[1].status = 403 /\ gets[2].status = 403 /\ gets[2].ua = ua2
    /\ Stories = <<>>

PageScanned == pc = "rows" /\ i > Len(rows)

\* a row whose age text parses to at most the cutoff, whatever else the row holds
RowWithinCutoff(row) ==
    /\ MatchesAgePattern(AgeTextOf(row))
    /\ AgeSecondsOf(AgeTextOf(row)) <= cutoff_seconds

\* a row the scan can read: it has a title link and a metadata row
RowComplete(row) == row.title_link # <<>> /\ row.meta_row # <<>>

FetchesNextPage == pc' = "get" /\ page' = page + 1

\* C4 as stated: after a parsed page, the next page is fetched if and only if
\* page < max_pages and some row of the page has a parseable age within the cutoff.
C4_AsStated ==
    [][PageScanned =>
          (FetchesNextPage <=>
              (page < max_pages /\ \E k \in 1..Len(rows) : RowWithinCutoff(rows[k])))]_vars

\* C4 (amended): after a parsed page, the next page is fetched if and only if
\* page < max_pages and some row of the page that has a title link and a metadata
\* row has a parseable age within the cutoff; otherwise pagination stops and no
\* later page is fetched.
C4_NextPageRule ==
    /\ [][PageScanned =>
            /\ FetchesNextPage <=>
                  (page < max_pages /\ \E k \in 1..Len(rows) :
                        RowComplete(rows[k]) /\ RowWithinCutoff(rows[k]))
            /\ FetchesNextPage \/ (pc' = "sort" /\ page' = page)]_vars
    /\ [][pc = "get" =>
            gets' = Append(gets, [page |-> page, ua |-> ua1, status |-> status'])]_vars
    /\ [][(pc \in {"sort", "emit", "respond", "done"}) =>
            gets' = gets /\ pc' \in {"sort", "emit", "respond", "done"}]_vars

\* C4 witness: page 2 was parsed, none of its rows was within the cutoff, and
\* pagination stopped before max_pages.
C4_Witness ==
    /\ pc = "sort" /\ page = 2 /\ page < max_pages
    /\ rows # <<>> /\ i > Len(rows)
    /\ ~any_within_cutoff
    /\ Len(gets) = 2

\* the last answer is final (no retry is pending) and is a failure
FetchFailed ==
    /\ pc \in {"got", "check"}
    /\ ~(pc = "got" /\ Len(gets) = 1 /\ status \in {403, 429})
    /\ IF status # 200 THEN TRUE ELSE IF body = <<>> THEN TRUE ELSE body[1] = <<>>

\* C5: a failed fetch or an empty parse on any page stops pagination, keeps the
\* accumulated records unchanged, and the operation goes on to return the sorted
\* result; it never fails.
C5_FailureStopsAndKeeps ==
    /\ [][FetchFailed => pc' = "sort" /\ results' = results /\ encountered' = encountered]_vars
    /\ [][pc = "sort" =>
            /\ pc' = "emit"
            /\ Len(results') = Len(results)
            /\ \A j, k \in 1..Len(results') : j < k => results'[j].votes >= results'[k].votes]_vars
    /\ [][pc = "emit" => pc' \in {"respond", "done"} /\ stdout' # <<>> /\ stdout'[1].stories = results]_vars
    /\ [](pc = "exit" => gets = <<>>)

\* C5 witness: page 2 failed after page 1 had given records, and the run returned them.
C5_Witness ==
    /\ pc = "done"
    /\ Len(gets) = 2 /\ gets[2].page = 2 /\ gets[2].status \in {0, 500}
    /\ Stories # <<>>

\* the parameters POST /api/run asks for: the overrides of the body over the defaults
Requested(name, default) ==
    IF input = None THEN default
    ELSE IF input[1][name] = None THEN default ELSE input[1][name][1]

\* C6: POST /api/run answers {result: P}, P being the payload the pipeline
\* produced for the parameters of the request body.
C6_RunForwardsPayload ==
    (entry = "http" /\ pc \in {"done", "exit"}) =>
        /\ stdout # <<>>
        /\ response = <<[result |-> JObject(stdout[1])]>>
        /\ stdout[1].days = Requested("days", 7)

\* an age text that is empty or does not match the pattern
Unparseable(row) == ~MatchesAgePattern(AgeTextOf(row))

\* C8: a row whose age text is empty or does not match the pattern is never added
\* to the results and never sets any_within_cutoff; a page of such rows only stops
\* pagination.
C8_UnparseableRowsSkipped ==
    /\ [][(pc = "rows" /\ i <= Len(rows) /\ Unparseable(rows[i])) =>
            /\ results' = results
            /\ any_within_cutoff' = any_within_cutoff
            /\ i' = i + 1]_vars
    /\ [][(PageScanned /\ \A k \in 1..Len(rows) : Unparseable(rows[k])) =>
            pc' = "sort" /\ ~any_within_cutoff]_vars

\* C8 witness: with min_votes = 0, a page of two rows with unreadable ages was
\* scanned, nothing was kept and pagination stopped before max_pages.
C8_Witness ==
    /\ pc = "sort" /\ i > Len(rows) /\ Len(rows) = 2
    /\ \A k \in 1..Len(rows) : RowComplete(rows[k]) /\ Unparseable(rows[k])
    /\ rows[1] # rows[2]
    /\ min_votes = 0 /\ page < max_pages
    /\ results = <<>>

TooOld(row) ==
    /\ MatchesAgePattern(AgeTextOf(row))
    /\ AgeSecondsOf(AgeTextOf(row)) > cutoff_seconds

VotesOf(row) ==
    IF row.meta_row = <<>> THEN 0
    ELSE IF row.meta_row[1].score = <<>> THEN 0
    ELSE IF row.meta_row[1].score[1][1].kind = "num" THEN row.meta_row[1].score[1][1].n
    ELSE 0

ScansRow == pc = "rows" /\ i <= Len(rows)
AfterTooOldRow == \E j \in 1..(i - 1) : RowComplete(rows[j]) /\ TooOld(rows[j])
Kept == Len(results') = Len(results) + 1 /\ any_within_cutoff'

\* C9 as stated: after a row that is too old, every later row of the page is still
\* examined, and a later row within the cutoff with votes >= min_votes is included
\* and sets any_within_cutoff.
C9_AsStated ==
    [][(ScansRow /\ AfterTooOldRow /\ RowWithinCutoff(rows[i]) /\ VotesOf(rows[i]) >= min_votes)
          => Kept]_vars

\* C9 (amended): a row that is too old is skipped and does not end the scan; every
\* later row of the page is still examined, and a later row that has a title link
\* and a metadata row, is within the cutoff and has votes >= min_votes is included
\* and sets any_within_cutoff.
C9_PermissiveScan ==
    /\ [][(ScansRow /\ RowComplete(rows[i]) /\ TooOld(rows[i])) =>
            /\ results' = results
            /\ any_within_cutoff' = any_within_cutoff
            /\ pc' = "rows" /\ i' = i + 1]_vars
    /\ [][(ScansRow /\ AfterTooOldRow /\ RowComplete(rows[i]) /\ RowWithinCutoff(rows[i])
             /\ VotesOf(rows[i]) >= min_votes)
            => /\ Kept
               /\ results'[Len(results')].votes = VotesOf(rows[i])
               /\ results'[Len(results')].age_text = AgeTextOf(rows[i])]_vars
    /\ [](PageScanned => scanned = 1..Len(rows))
    /\ [](pc = "rows" => scanned = 1..(i - 1))

\* C9 witness: the first row of the page was too old and the second was kept.
C9_Witness ==
    /\ PageScanned /\ Len(rows) = 2
    /\ RowComplete(rows[1]) /\ TooOld(rows[1])
    /\ Len(results) = 1 /\ page = 1
    /\ any_within_cutoff

Primary(k) == Cardinality({j \in 1..k : gets[j].ua = ua1})

InFetch == pc \in {"get", "got", "check", "rows", "sort"}

\* What is left of an invocation of fetch_hn_stories: the pages not yet finished,
\* the position within the current page, the rows of it not yet scanned.
Rank ==
    <<IF pc \in {"get", "got", "check", "rows"} THEN max_pages + 1 - page ELSE 0,
      CASE pc = "get" -> 4 [] pc = "got" -> 3 [] pc = "check" -> 2
        [] pc \in {"rows", "sort"} -> 1 [] OTHER -> 0,
      IF pc = "rows" THEN Len(rows) + 1 - i ELSE 0>>

LexLess(a, b) ==
    \/ a[1] < b[1]
    \/ a[1] = b[1] /\ a[2] < b[2]
    \/ a[1] = b[1] /\ a[2] = b[2] /\ a[3] < b[3]

\* C10: every invocation of fetch_hn_stories terminates (each step takes it closer
\* to its return, in a well-founded order, and it is never stuck before it
\* returns); pages are requested in the order 1, 2, 3, ... with the primary
\* header, none skipped or repeated, none above max_pages, and at most
\* max_pages + 1 GETs are issued.
C10_TerminatesInOrder ==
    /\ [](\A k \in 1..Len(gets) :
             /\ gets[k].page \in 1..max_pages
             /\ gets[k].ua = ua1 => gets[k].page = Primary(k))
    /\ [](Len(gets) <= max_pages + 1 /\ Cardinality(Retries) <= 1)
    /\ [](\A k \in 1..3 : Rank[k] >= 0)
    /\ [][InFetch => LexLess(Rank', Rank)]_vars
    /\ [](InFetch => ENABLED Next)

\* C10 witness: a run of 20 pages with a retry on page 1 has issued 21 GETs and ended.
C10_Witness ==
    /\ pc = "done"
    /\ max_pages = 20
    /\ Len(gets) = 21

====
